---- MODULE Spec2Model ----
(***************************************************************************)
(* medPharma queue-management backend: the patient queue held in the       *)
(* patients/doctors tables (DatabaseService), the orchestration on top of  *)
(* it (QueueManager), the REST routes and the socket.io command handlers   *)
(* of server.js.                                                           *)
(***************************************************************************)
EXTENDS Integers, Sequences, FiniteSets, TLC

\* ------------------------------------------------------------------ bounds
MaxPatients == 3
MaxTime == 1
MaxDailyPatients == 2
MaxSocketPatients == 2
MaxBaseTime == 100
MaxRecordPatients == 2
MaxClock == 2
MaxQueueLength == 11
MaxRemovePatients == 2

\* ------------------------------------------------------------- identifiers
\* Patient ids are UUIDs handed out by the database; they are never reused.
UuidPool == <<"p1", "p2", "p3", "p4", "p5">>
PatientIds == {UuidPool[i] : i \in 1..MaxPatients}
\* A patient id that is not a well-formed UUID.
MalformedId == "bad-id"
\* A missing (undefined) field of a payload.
Missing == "undefined"
\* The seeded doctors, and an id no doctor has.
DoctorIds == {"doc1", "doc2"}
UnknownDoctor == "docX"

validStatuses == {"waiting", "next", "consulting", "completed", "late"}
\* A status label outside the five valid ones.
InvalidStatus == "cancelled"

\* validateUUID of server.js, the isUUID validators of the routes, and the
\* input syntax of the UUID column patients.id.
validateUUID(id) == id \in PatientIds

VARIABLES
  doctors,   \* doctors table: id -> [is_available]
  patients,  \* patients table: id -> [doctor_id, status, estimated_duration,
             \*   joined_at, consultation_started_at, consultation_ended_at]
  nextId,    \* number of patient rows created so far
  now,       \* CURRENT_TIMESTAMP
  socket,    \* the socket.io session: [userType, doctorId, rooms]
  reqs,      \* in-flight addPatientToQueue calls, between their awaits
  lastOp,    \* the last operation: its name and what its caller saw
  emitted    \* the events the last operation emitted

vars == <<doctors, patients, nextId, now, socket, reqs, lastOp, emitted>>

\* ---------------------------------------------------------------- doctors
average_consultation_time(d) == IF d = "doc1" THEN 15 ELSE 20
max_daily_patients(d) == MaxDailyPatients
specialization(d) == IF d = "doc1" THEN "General Medicine" ELSE "Cardiology"

\* ------------------------------------------------------ DurationCalculator
\* The multipliers are decimal fractions; each table is kept as integers over
\* its own denominator: tenths for the specialization, twentieths for the
\* time of day, the day of the week and the queue length, hundredths for the
\* experience.  The product of the five is a number of MultiplierScale-ths.
MultiplierScale == 10 * 20 * 20 * 20 * 100

Specializations ==
  {"General Medicine", "Cardiology", "Pediatrics", "Dermatology",
   "Internal Medicine", "Emergency Medicine", "Surgery", "Psychiatry",
   "Orthopedics"}

SPECIALIZATION_MULTIPLIERS(s) ==
  CASE s = "General Medicine" -> 10
    [] s = "Cardiology" -> 13
    [] s = "Pediatrics" -> 11
    [] s = "Dermatology" -> 8
    [] s = "Internal Medicine" -> 12
    [] s = "Emergency Medicine" -> 9
    [] s = "Surgery" -> 15
    [] s = "Psychiatry" -> 18
    [] s = "Orthopedics" -> 11
    [] OTHER -> 10

getTimeOfDayMultiplier(hour) ==
  IF hour < 9 THEN 22
  ELSE IF hour < 12 THEN 20
  ELSE IF hour < 14 THEN 21
  ELSE IF hour < 17 THEN 20
  ELSE IF hour < 19 THEN 22
  ELSE 24

getDayOfWeekMultiplier(day) ==
  CASE day = 1 -> 22
    [] day \in {2, 3, 4} -> 20
    [] day = 5 -> 21
    [] day = 6 -> 23
    [] day = 0 -> 24
    [] OTHER -> 20

getQueueLengthMultiplier(queueLength) ==
  IF queueLength <= 2 THEN 20
  ELSE IF queueLength <= 5 THEN 19
  ELSE IF queueLength <= 10 THEN 18
  ELSE 17

getDoctorExperienceMultiplier(doctorId) ==
  CASE doctorId = "doc1" -> 95
    [] doctorId = "doc2" -> 90
    [] doctorId = "doc3" -> 100
    [] doctorId = "doc4" -> 92
    [] doctorId = "doc5" -> 88
    [] OTHER -> 100

\* (Math.random() - 0.5) * 4 lies between -2 and +2; the model takes it in
\* quarters of a minute.
VarianceScale == 4
Variances == (0 - 2 * VarianceScale)..(2 * VarianceScale)

Max(a, b) == IF a >= b THEN a ELSE b
Min(a, b) == IF a <= b THEN a ELSE b

\* Math.round of the fraction n / MultiplierScale plus variance / VarianceScale:
\* the nearest integer, a half rounding up.
RoundedDuration(n, variance) ==
  (n + variance * (MultiplierScale \div VarianceScale) + MultiplierScale \div 2)
    \div MultiplierScale

UnclampedProduct(doctor, currentQueueLength, hour, day) ==
  doctor.average_consultation_time
    * SPECIALIZATION_MULTIPLIERS(doctor.specialization)
    * getTimeOfDayMultiplier(hour)
    * getDayOfWeekMultiplier(day)
    * getQueueLengthMultiplier(currentQueueLength)
    * getDoctorExperienceMultiplier(doctor.id)

\* The calculation without its final clamp to 5..60.
calculateEstimatedDuration_noClamp(doctor, currentQueueLength, hour, day, variance) ==
  RoundedDuration(UnclampedProduct(doctor, currentQueueLength, hour, day), variance)

\* hour and day are what new Date() reads, variance what Math.random() gives.
calculateEstimatedDuration(doctor, currentQueueLength, hour, day, variance) ==
  Max(5, Min(60,
    RoundedDuration(UnclampedProduct(doctor, currentQueueLength, hour, day), variance)))

\* ------------------------------------------------------------------ rooms
NoId == "-"
getDoctorRoom(doctorId) == [kind |-> "doctor", did |-> doctorId, pid |-> NoId]
getPatientPrivateRoom(patientId) == [kind |-> "patient", did |-> NoId, pid |-> patientId]
getDoctorPatientRoom(doctorId, patientId) == [kind |-> "pair", did |-> doctorId, pid |-> patientId]
\* socket.emit: the issuing session itself
ToSocket == [kind |-> "socket", did |-> NoId, pid |-> NoId]

Event(ev, to, data) == [ev |-> ev, to |-> to, data |-> data]

\* ------------------------------------------------------- DatabaseService
DoctorPatients(tbl, d) == {p \in DOMAIN tbl : tbl[p].doctor_id = d}
WaitingOf(tbl, d) == {p \in DoctorPatients(tbl, d) : tbl[p].status = "waiting"}

current_patient_count(tbl, d) ==
  Cardinality({p \in DoctorPatients(tbl, d) : tbl[p].status # "completed"})
waiting_patient_count(tbl, d) == Cardinality(WaitingOf(tbl, d))

getDoctorById(docs, tbl, doctorId) ==
  [id |-> doctorId,
   is_available |-> docs[doctorId].is_available,
   specialization |-> specialization(doctorId),
   average_consultation_time |-> average_consultation_time(doctorId),
   max_daily_patients |-> max_daily_patients(doctorId),
   current_patient_count |-> current_patient_count(tbl, doctorId),
   waiting_patient_count |-> waiting_patient_count(tbl, doctorId)]

db_updateDoctorAvailability(docs, doctorId, isAvailable) ==
  [docs EXCEPT ![doctorId].is_available = isAvailable]

\* The value of a TIMESTAMP column that was never written.
NULL == 0 - 1

createPatient(tbl, id, doctorId, estimatedDuration, t) ==
  [p \in DOMAIN tbl \cup {id} |->
     IF p = id
     THEN [doctor_id |-> doctorId, status |-> "waiting",
           estimated_duration |-> estimatedDuration, joined_at |-> t,
           consultation_started_at |-> NULL, consultation_ended_at |-> NULL]
     ELSE tbl[p]]

\* The UPDATE that writes the status only.
db_updatePatientStatus_statusOnly(tbl, patientId, status) ==
  IF patientId \in DOMAIN tbl
  THEN [tbl EXCEPT ![patientId].status = status]
  ELSE tbl

\* The UPDATE that also stamps joined_at.
db_updatePatientStatus_rejoin(tbl, patientId, status) ==
  IF patientId \in DOMAIN tbl
  THEN [tbl EXCEPT ![patientId].status = status, ![patientId].joined_at = now]
  ELSE tbl

\* CURRENT_TIMESTAMP of the UPDATE is the clock, now.  A table kept as a
\* projection has the column written only when it keeps the column.
db_updatePatientStatus(tbl, patientId, status) ==
  IF patientId \in DOMAIN tbl
  THEN CASE status = "consulting" /\ "consultation_started_at" \in DOMAIN tbl[patientId] ->
              [tbl EXCEPT ![patientId].status = status,
                          ![patientId].consultation_started_at = now]
         [] status = "completed" /\ "consultation_ended_at" \in DOMAIN tbl[patientId] ->
              [tbl EXCEPT ![patientId].status = status,
                          ![patientId].consultation_ended_at = now]
         [] OTHER -> [tbl EXCEPT ![patientId].status = status]
  ELSE tbl

\* A DELETE that matches no row.
removePatient_noRow(tbl, patientId) == tbl

removePatient(tbl, patientId) == [p \in DOMAIN tbl \ {patientId} |-> tbl[p]]

\* The DELETE without its doctor_id condition.
db_clearDoctorQueue_anyDoctor(tbl, doctorId, statusFilter) ==
  [p \in {q \in DOMAIN tbl : tbl[q].status # statusFilter} |-> tbl[p]]

db_clearDoctorQueue(tbl, doctorId, statusFilter) ==
  [p \in {q \in DOMAIN tbl : ~(tbl[q].doctor_id = doctorId /\ tbl[q].status = statusFilter)}
     |-> tbl[p]]

\* INTERVAL '24 hours', in ticks of the clock: one tick is a day.
RetentionInterval == 1

\* The DELETE without its age condition.
cleanupOldPatients_anyAge(tbl) ==
  [p \in {q \in DOMAIN tbl : tbl[q].status # "completed"} |-> tbl[p]]

\* A comparison with a NULL consultation_ended_at is not true.
cleanupOldPatients(tbl) ==
  [p \in {q \in DOMAIN tbl :
            ~(/\ tbl[q].status = "completed"
              /\ tbl[q].consultation_ended_at # NULL
              /\ tbl[q].consultation_ended_at < now - RetentionInterval)}
     |-> tbl[p]]

\* The orders in which a query "ORDER BY joined_at ASC" may return the rows S:
\* rows with equal joined_at come in any order.
OrderedByJoinedAt(tbl, S) ==
  {s \in [1..Cardinality(S) -> S] :
     /\ \A i, j \in 1..Cardinality(S) : i # j => s[i] # s[j]
     /\ \A i, j \in 1..Cardinality(S) : i < j => tbl[s[i]].joined_at <= tbl[s[j]].joined_at}

getDoctorQueue(tbl, doctorId) == OrderedByJoinedAt(tbl, DoctorPatients(tbl, doctorId))
getWaitingPatients(tbl, doctorId) == OrderedByJoinedAt(tbl, WaitingOf(tbl, doctorId))

getPatientQueuePosition(tbl, patientId) ==
  Cardinality({q \in DOMAIN tbl :
                 /\ tbl[q].doctor_id = tbl[patientId].doctor_id
                 /\ tbl[q].status = "waiting"
                 /\ tbl[q].joined_at < tbl[patientId].joined_at}) + 1

\* ------------------------------------------------------------ QueueManager
\* The outcome of a call: the patients table it leaves, "ok" or the error it
\* throws, the value it returns and the events it emitted before returning or
\* throwing.  A method is the set of its possible outcomes (the row order of
\* equal joined_at is the database's choice).
Out(tbl, err, ret, ev) == [tbl |-> tbl, err |-> err, ret |-> ret, ev |-> ev]
NoRet == 0 - 1

QueueSnapshot(tbl, doctorId) == [p \in DoctorPatients(tbl, doctorId) |-> tbl[p]]

\* The queue broadcast addressed to the pair channels of the queued patients
\* as well.
emitQueueUpdate_toPairs(tbl, doctorId) ==
  {Event("queueChanged", room, [queue |-> QueueSnapshot(tbl, doctorId)])
     : room \in {getDoctorRoom(doctorId)} \cup
                {getDoctorPatientRoom(doctorId, p) : p \in DoctorPatients(tbl, doctorId)}}

emitQueueUpdate(tbl, doctorId) ==
  {Event("queueChanged", getDoctorRoom(doctorId), [queue |-> QueueSnapshot(tbl, doctorId)])}

\* getDoctorRoom(doctorId, patientId) at line 844 is getDoctorRoom(doctorId):
\* the function takes one parameter.
updateQueuePositions(tbl, doctorId) ==
  IF doctorId \notin DoctorIds THEN {{}}
  ELSE
  {{Event("queueUpdate", getDoctorRoom(doctorId),
          [patientId |-> waitingPatients[index],
           position |-> index,
           estimatedWaitTime |-> (index - 1) * average_consultation_time(doctorId)])
      : index \in 1..Len(waitingPatients)}
    : waitingPatients \in getWaitingPatients(tbl, doctorId)}

emitPatientAdded(tbl, patientId, doctorId) ==
  IF patientId \in DOMAIN tbl
  THEN {Event("patientAdded", getDoctorRoom(doctorId), [patientId |-> patientId])}
  ELSE {}

\* The checks with the capacity comparison off by one: a doctor exactly at
\* capacity is still admitted to.
addPatientCheck_offByOne(docs, tbl, doctorId) ==
  IF doctorId \notin DOMAIN docs THEN "DoctorNotFound"
  ELSE LET doctor == getDoctorById(docs, tbl, doctorId) IN
       IF ~doctor.is_available THEN "DoctorUnavailable"
       ELSE IF doctor.current_patient_count > doctor.max_daily_patients
            THEN "CapacityExceeded"
            ELSE "ok"

\* The checks with the capacity tested before the availability.
addPatientCheck_capacityFirst(docs, tbl, doctorId) ==
  IF doctorId \notin DOMAIN docs THEN "DoctorNotFound"
  ELSE LET doctor == getDoctorById(docs, tbl, doctorId) IN
       IF doctor.current_patient_count >= doctor.max_daily_patients
       THEN "CapacityExceeded"
       ELSE IF ~doctor.is_available THEN "DoctorUnavailable"
            ELSE "ok"

\* The checks of addPatientToQueue before its first write.
addPatientCheck(docs, tbl, doctorId) ==
  IF doctorId \notin DOMAIN docs THEN "DoctorNotFound"
  ELSE LET doctor == getDoctorById(docs, tbl, doctorId) IN
       IF ~doctor.is_available THEN "DoctorUnavailable"
       ELSE IF doctor.current_patient_count >= doctor.max_daily_patients
            THEN "CapacityExceeded"
            ELSE "ok"

\* What the enqueue requests read from the wall clock and from Math.random():
\* a Tuesday morning and a variance of nothing.  (Every other reading is
\* covered where the calculation is checked on its own.)
EnqueueHours == {10}
EnqueueDays == {2}
EnqueueVariances == {0}

\* DurationCalculator.calculateEstimatedDuration(doctor, queueLength) for the
\* doctors row of doctorId.
EstimatedDurations(doctorId, queueLength) ==
  {calculateEstimatedDuration(
     [id |-> doctorId,
      average_consultation_time |-> average_consultation_time(doctorId),
      specialization |-> specialization(doctorId)],
     queueLength, hour, day, variance)
     : hour \in EnqueueHours, day \in EnqueueDays, variance \in EnqueueVariances}

\* The insert with the queue broadcast built from the rows read before it.
addPatientInsert_staleSnapshot(tbl, doctorId, id, t, queueLength, estimatedDuration) ==
  LET tbl1 == createPatient(tbl, id, doctorId, estimatedDuration, t) IN
  Out(tbl1, "ok", queueLength + 1,
      emitQueueUpdate(tbl, doctorId) \cup emitPatientAdded(tbl1, id, doctorId))

\* The insert of addPatientToQueue and what follows it; queueLength is the
\* number of waiting rows read before the insert.
addPatientInsert(tbl, doctorId, id, t, queueLength, estimatedDuration) ==
  LET tbl1 == createPatient(tbl, id, doctorId, estimatedDuration, t) IN
  Out(tbl1, "ok", queueLength + 1,
      emitQueueUpdate(tbl1, doctorId) \cup emitPatientAdded(tbl1, id, doctorId))

addPatientToQueue(docs, tbl, doctorId, id, t) ==
  LET check == addPatientCheck(docs, tbl, doctorId) IN
  IF check # "ok" THEN {Out(tbl, check, NoRet, {})}
  ELSE LET queueLength == waiting_patient_count(tbl, doctorId) IN
       {addPatientInsert(tbl, doctorId, id, t, queueLength, estimatedDuration)
          : estimatedDuration \in EstimatedDurations(doctorId, queueLength)}

\* consultingPatients.find((p) => p.status === "consulting"): the first such
\* row of the rows read, NoId when there is none.
currentlyConsulting(tbl, consultingPatients) ==
  LET hits == {i \in 1..Len(consultingPatients) :
                 tbl[consultingPatients[i]].status = "consulting"} IN
  IF hits = {} THEN NoId
  ELSE consultingPatients[CHOOSE i \in hits : \A j \in hits : i <= j]

\* The update without the check of the status label.
updatePatientStatus_unvalidated(tbl, patientId, status) ==
  IF ~validateUUID(patientId) THEN {Out(tbl, "DbError", NoRet, {})}
  ELSE IF patientId \notin DOMAIN tbl THEN {Out(tbl, "PatientNotFound", NoRet, {})}
  ELSE
    LET doctorId == tbl[patientId].doctor_id
        tbl2 == db_updatePatientStatus(tbl, patientId, status)
    IN {Out(tbl2, "ok", NoRet, emitQueueUpdate(tbl2, doctorId) \cup positions)
          : positions \in updateQueuePositions(tbl2, doctorId)}

updatePatientStatus(tbl, patientId, status) ==
  IF status \notin validStatuses THEN {Out(tbl, "InvalidStatus", NoRet, {})}
  ELSE IF ~validateUUID(patientId) THEN {Out(tbl, "DbError", NoRet, {})}
  ELSE IF patientId \notin DOMAIN tbl THEN {Out(tbl, "PatientNotFound", NoRet, {})}
  ELSE
    LET doctorId == tbl[patientId].doctor_id IN
    UNION {
      LET current == currentlyConsulting(tbl, consultingPatients)
          tbl1 == IF status = "consulting" /\ current # NoId /\ current # patientId
                  THEN db_updatePatientStatus(tbl, current, "completed")
                  ELSE tbl
          tbl2 == db_updatePatientStatus(tbl1, patientId, status)
      IN {Out(tbl2, "ok", NoRet, emitQueueUpdate(tbl2, doctorId) \cup positions)
            : positions \in updateQueuePositions(tbl2, doctorId)}
      : consultingPatients \in getWaitingPatients(tbl, doctorId)}

\* The class defines emitPatientRemoved twice; the later definition (three
\* parameters) is the method.  The row is deleted before it runs.
emitPatientRemoved(tbl, patientId, doctorId) ==
  {Event("patientRemoved", getDoctorRoom(doctorId), [patientId |-> patientId]),
   Event("patientRemoved", getPatientPrivateRoom(patientId), [patientId |-> patientId])}

removePatientFromQueue(tbl, patientId) ==
  IF ~validateUUID(patientId) THEN {Out(tbl, "DbError", NoRet, {})}
  ELSE IF patientId \notin DOMAIN tbl THEN {Out(tbl, "PatientNotFound", NoRet, {})}
  ELSE
    LET doctorId == tbl[patientId].doctor_id
        tbl1 == removePatient(tbl, patientId)
    IN {Out(tbl1, "ok", 1,
            emitPatientRemoved(tbl1, patientId, doctorId)
              \cup emitQueueUpdate(tbl1, doctorId) \cup positions)
          : positions \in updateQueuePositions(tbl1, doctorId)}

getPatientQueueStatus(tbl, patientId) ==
  LET position == getPatientQueuePosition(tbl, patientId)
      estimatedWaitTime ==
        IF tbl[patientId].status = "waiting" /\ position > 0
        THEN (position - 1) * average_consultation_time(tbl[patientId].doctor_id)
        ELSE 0
  IN [patientId |-> patientId, position |-> position,
      estimatedWaitTime |-> estimatedWaitTime, status |-> tbl[patientId].status]

getEstimatedWaitTimeForNewPatient(tbl, doctorId) ==
  (waiting_patient_count(tbl, doctorId) + 1) * average_consultation_time(doctorId)

autoAdvanceQueue(tbl, doctorId) ==
  {IF Len(waitingPatients) > 0
   THEN Out(db_updatePatientStatus(tbl, waitingPatients[1], "next"), "ok", NoRet,
            {Event("patientStatusUpdated",
                   getDoctorPatientRoom(doctorId, waitingPatients[1]),
                   [patientId |-> waitingPatients[1], status |-> "next"])})
   ELSE Out(tbl, "ok", NoRet, {})
     : waitingPatients \in getWaitingPatients(tbl, doctorId)}

clearDoctorQueue(docs, tbl, doctorId, statusFilter) ==
  IF doctorId \notin DOMAIN docs THEN {Out(tbl, "DoctorNotFound", NoRet, {})}
  ELSE
    LET tbl1 == db_clearDoctorQueue(tbl, doctorId, statusFilter)
        removedCount == Cardinality(DOMAIN tbl) - Cardinality(DOMAIN tbl1)
    IN {Out(tbl1, "ok", removedCount,
            IF removedCount > 0 THEN emitQueueUpdate(tbl1, doctorId) ELSE {})}

\* emitConsultationStarted(patientId, doctorId): both lookups, the emit to the
\* doctor's room, then the emit to the patient's room, which reads doctor.name.
emitConsultationStarted(docs, tbl, patientId, doctorId) ==
  IF ~validateUUID(patientId) THEN {Out(tbl, "DbError", NoRet, {})}
  ELSE
    LET toDoctor == Event("consultationStarted", getDoctorRoom(doctorId),
                          [patientId |-> patientId])
        toPatient == Event("consultationStarted", getPatientPrivateRoom(patientId),
                           [patientId |-> patientId])
    IN IF doctorId \notin DOMAIN docs
       THEN {Out(tbl, "TypeError", NoRet, {toDoctor})}
       ELSE {Out(tbl, "ok", NoRet, {toDoctor, toPatient})}

emitConsultationCompleted(docs, tbl, patientId, doctorId) ==
  IF ~validateUUID(patientId) THEN {Out(tbl, "DbError", NoRet, {})}
  ELSE
    LET toDoctor == Event("consultationCompleted", getDoctorRoom(doctorId),
                          [patientId |-> patientId])
        toPatient == Event("consultationCompleted", getPatientPrivateRoom(patientId),
                           [patientId |-> patientId])
    IN {IF doctorId \notin DOMAIN docs
        THEN Out(adv.tbl, "TypeError", NoRet, {toDoctor} \cup adv.ev)
        ELSE Out(adv.tbl, "ok", NoRet, {toDoctor, toPatient} \cup adv.ev)
          : adv \in autoAdvanceQueue(tbl, doctorId)}

performMaintenanceCleanup(tbl) ==
  LET tbl1 == cleanupOldPatients(tbl) IN
  Out(tbl1, "ok", Cardinality(DOMAIN tbl) - Cardinality(DOMAIN tbl1), {})

updateDoctorAvailability(docs, doctorId, isAvailable) ==
  IF doctorId \notin DOMAIN docs
  THEN [docs |-> docs, err |-> "DoctorNotFound", ev |-> {}]
  ELSE [docs |-> db_updateDoctorAvailability(docs, doctorId, isAvailable),
        err |-> "ok",
        ev |-> {Event("doctorAvailabilityUpdate", getDoctorRoom(doctorId),
                      [doctorId |-> doctorId, isAvailable |-> isAvailable])}]

\* ------------------------------------------------------------------ state
NoSession == [userType |-> "none", doctorId |-> NoId, rooms |-> {}]
\* A call of addPatientToQueue between its awaits: where it stands, and its
\* locals doctorId, doctor.current_patient_count, queueLength and patient.id.
Idle == [pc |-> "idle", doctorId |-> NoId, current_patient_count |-> 0,
         queueLength |-> 0, id |-> NoId]
Requests == {"r1", "r2"}

\* What the caller of the last operation saw: the operation, "ok" or the error
\* it ended with, the value returned and, for a REST call, the HTTP status.
Op(op, result, ret, http) == [op |-> op, result |-> result, ret |-> ret, http |-> http]

Init ==
  /\ doctors = [d \in DoctorIds |-> [is_available |-> TRUE]]
  /\ patients = <<>>
  /\ nextId = 0
  /\ now = 0
  /\ socket = NoSession
  /\ reqs = [r \in Requests |-> Idle]
  /\ lastOp = Op("idle", "ok", NoRet, 0)
  /\ emitted = {}

\* The server is between two requests: the reply and the events of the last
\* one have been delivered.
NoOp == Op("idle", "ok", NoRet, 0)
Ready == lastOp = NoOp

Deliver ==
  /\ ~Ready
  /\ lastOp' = NoOp
  /\ emitted' = {}
  /\ UNCHANGED <<doctors, patients, nextId, now, socket, reqs>>

\* The id gen_random_uuid() gives the next row.
NewId == UuidPool[nextId + 1]

\* CURRENT_TIMESTAMP of a statement: the clock has moved on since the last
\* statement, or it has not.
Timestamps == {t \in {now, now + 1} : t <= MaxTime}

\* The specifications of the routes and of the socket handlers keep the
\* projection of the patients table on the columns their handlers read:
\* doctor_id, status and joined_at.
QueueColumns(tbl) ==
  [p \in DOMAIN tbl |->
     [doctor_id |-> tbl[p].doctor_id, status |-> tbl[p].status,
      joined_at |-> tbl[p].joined_at]]

\* ------------------------------------------------------------ REST routes
\* POST /api/queue/add-patient
PostAddPatient(doctorId) ==
  /\ Ready
  /\ nextId < MaxPatients
  /\ \E t \in Timestamps :
     \E out \in addPatientToQueue(doctors, patients, doctorId, NewId, t) :
       /\ patients' = QueueColumns(out.tbl)
       /\ nextId' = IF out.err = "ok" THEN nextId + 1 ELSE nextId
       /\ now' = IF out.err = "ok" THEN t ELSE now
       /\ emitted' = out.ev
       /\ lastOp' = Op("addPatientToQueue", out.err, out.ret,
                       CASE out.err = "ok" -> 201
                         [] out.err \in {"DoctorNotFound", "DoctorUnavailable"} -> 400
                         [] OTHER -> 500)
  /\ UNCHANGED <<doctors, socket, reqs>>

\* PATCH /api/queue/patient/:patientId/status
PatchPatientStatus(patientId, status) ==
  /\ Ready
  /\ IF ~validateUUID(patientId)
        \/ status \notin {"waiting", "next", "consulting", "completed"}
     THEN /\ lastOp' = Op("updatePatientStatus", "ValidationError", NoRet, 400)
          /\ emitted' = {}
          /\ UNCHANGED patients
     ELSE \E out \in updatePatientStatus(patients, patientId, status) :
          /\ patients' = QueueColumns(out.tbl)
          /\ emitted' = out.ev
          /\ lastOp' = Op("updatePatientStatus", out.err, NoRet,
                          CASE out.err = "ok" -> 200
                            [] out.err = "PatientNotFound" -> 404
                            [] out.err = "InvalidStatus" -> 400
                            [] OTHER -> 500)
  /\ UNCHANGED <<doctors, nextId, now, socket, reqs>>

\* DELETE /api/queue/patient/:patientId
DeletePatient(patientId) ==
  /\ Ready
  /\ IF ~validateUUID(patientId)
     THEN /\ lastOp' = Op("removePatientFromQueue", "ValidationError", NoRet, 400)
          /\ emitted' = {}
          /\ UNCHANGED patients
     ELSE \E out \in removePatientFromQueue(patients, patientId) :
          /\ patients' = QueueColumns(out.tbl)
          /\ emitted' = out.ev
          /\ lastOp' = Op("removePatientFromQueue", out.err, out.ret,
                          IF out.err = "ok" THEN 200 ELSE 500)
  /\ UNCHANGED <<doctors, nextId, now, socket, reqs>>

\* DELETE /api/queue/doctor/:doctorId/clear
DeleteClearQueue(doctorId, statusFilter) ==
  /\ Ready
  /\ IF statusFilter \notin {"waiting", "next", "consulting", Missing}
     THEN /\ lastOp' = Op("clearDoctorQueue", "ValidationError", NoRet, 400)
          /\ emitted' = {}
          /\ UNCHANGED patients
     ELSE \E out \in clearDoctorQueue(doctors, patients, doctorId,
                                      IF statusFilter = Missing THEN "waiting"
                                      ELSE statusFilter) :
          /\ patients' = QueueColumns(out.tbl)
          /\ emitted' = out.ev
          /\ lastOp' = Op("clearDoctorQueue", out.err, out.ret,
                          CASE out.err = "ok" -> 200
                            [] out.err = "DoctorNotFound" -> 404
                            [] OTHER -> 500)
  /\ UNCHANGED <<doctors, nextId, now, socket, reqs>>

\* PATCH /api/doctors/:doctorId/availability
PatchAvailability(doctorId, isAvailable) ==
  /\ Ready
  /\ LET out == updateDoctorAvailability(doctors, doctorId, isAvailable) IN
       /\ doctors' = out.docs
       /\ emitted' = out.ev
       /\ lastOp' = Op("updateDoctorAvailability", out.err, NoRet,
                       IF out.err = "ok" THEN 200 ELSE 404)
  /\ UNCHANGED <<patients, nextId, now, socket, reqs>>

\* ------------------------------------------------- socket.io handlers
\* socket.emit("error", {message, code}) of a catch block.
ErrorEvent(code, message) == Event("error", ToSocket, [code |-> code, message |-> message])

\* handlePatientUpdate(event, {patientId, doctorId, status}): the handler of
\* the socket commands startConsultation and updatePatientStatus.  The calls
\* at lines 255 and 257 pass (doctorId, patientId) to methods that take
\* (patientId, doctorId); the emit at line 259 reads the undeclared names
\* patient and doctor.
handlePatientUpdate(event, patientId, doctorId, status) ==
  /\ Ready
  /\ IF socket.userType # "doctor"
     THEN /\ lastOp' = Op(event, "Unauthorized", NoRet, 0)
          /\ emitted' = {ErrorEvent(event, "Unauthorized")}
          /\ UNCHANGED patients
     ELSE IF patientId = Missing \/ doctorId = Missing
     THEN /\ lastOp' = Op(event, "MissingIds", NoRet, 0)
          /\ emitted' = {ErrorEvent(event, "MissingIds")}
          /\ UNCHANGED patients
     ELSE
       LET newStatus == IF event = "startConsultation" THEN "consulting" ELSE status IN
       \E upd \in updatePatientStatus(patients, patientId, newStatus) :
         IF upd.err # "ok"
         THEN /\ lastOp' = Op(event, upd.err, NoRet, 0)
              /\ emitted' = upd.ev \cup {ErrorEvent(event, upd.err)}
              /\ patients' = QueueColumns(upd.tbl)
         ELSE
           \E after \in
                IF status = "startConsultation"
                THEN emitConsultationStarted(doctors, upd.tbl, doctorId, patientId)
                ELSE IF status = "completed"
                THEN emitConsultationCompleted(doctors, upd.tbl, doctorId, patientId)
                ELSE {Out(upd.tbl, "ReferenceError", NoRet, {})} :
             /\ patients' = QueueColumns(after.tbl)
             /\ lastOp' = Op(event, after.err, NoRet, 0)
             /\ emitted' = upd.ev \cup after.ev \cup
                           (IF after.err # "ok" THEN {ErrorEvent(event, after.err)} ELSE {})
  /\ UNCHANGED <<doctors, nextId, now, socket, reqs>>

OnStartConsultation(patientId, doctorId, status) ==
  handlePatientUpdate("startConsultation", patientId, doctorId, status)

OnUpdatePatientStatus(patientId, doctorId, status) ==
  handlePatientUpdate("updatePatientStatus", patientId, doctorId, status)

\* socket.on("completeConsultation")
OnCompleteConsultation(patientId, doctorId) ==
  /\ Ready
  /\ IF socket.userType # "doctor"
     THEN /\ lastOp' = Op("completeConsultation", "Unauthorized", NoRet, 0)
          /\ emitted' = {ErrorEvent("completeConsultation", "Unauthorized")}
          /\ UNCHANGED patients
     ELSE IF patientId = Missing \/ doctorId = Missing
     THEN /\ lastOp' = Op("completeConsultation", "MissingIds", NoRet, 0)
          /\ emitted' = {ErrorEvent("completeConsultation", "MissingIds")}
          /\ UNCHANGED patients
     ELSE
       \E upd \in updatePatientStatus(patients, patientId, "completed") :
         /\ patients' = QueueColumns(upd.tbl)
         /\ IF upd.err # "ok"
            THEN /\ lastOp' = Op("completeConsultation", upd.err, NoRet, 0)
                 /\ emitted' = upd.ev \cup {ErrorEvent("completeConsultation", upd.err)}
            ELSE LET toPair == Event("consultationCompleted",
                                     getDoctorPatientRoom(doctorId, patientId),
                                     [patientId |-> patientId])
                 IN IF doctorId \notin DOMAIN doctors
                    THEN /\ lastOp' = Op("completeConsultation", "DoctorNotFound", NoRet, 0)
                         /\ emitted' = upd.ev \cup {toPair}
                              \cup {ErrorEvent("completeConsultation", "DoctorNotFound")}
                    ELSE /\ lastOp' = Op("completeConsultation", "ok", NoRet, 0)
                         /\ emitted' = upd.ev \cup {toPair}
                              \cup emitQueueUpdate(upd.tbl, doctorId)
  /\ UNCHANGED <<doctors, nextId, now, socket, reqs>>

\* socket.emit("removePatientFromQueueResponse", {success, message})
RemoveResponse(success, message) ==
  Event("removePatientFromQueueResponse", ToSocket,
        [success |-> success, message |-> message])

\* socket.on("removePatientFromQueue")
OnRemovePatientFromQueue(patientId, doctorId) ==
  /\ Ready
  /\ IF socket.userType # "doctor"
     THEN /\ lastOp' = Op("removePatientFromQueue", "Unauthorized", NoRet, 0)
          /\ emitted' = {RemoveResponse(FALSE, "Unauthorized")}
          /\ UNCHANGED patients
     ELSE IF patientId = Missing \/ doctorId = Missing
     THEN /\ lastOp' = Op("removePatientFromQueue", "MissingIds", NoRet, 0)
          /\ emitted' = {RemoveResponse(FALSE, "MissingIds")}
          /\ UNCHANGED patients
     ELSE
       \E rm \in removePatientFromQueue(patients, patientId) :
         /\ patients' = QueueColumns(rm.tbl)
         /\ IF rm.err # "ok"
            THEN /\ lastOp' = Op("removePatientFromQueue", rm.err, NoRet, 0)
                 /\ emitted' = rm.ev \cup {RemoveResponse(FALSE, rm.err)}
            ELSE LET toPair == Event("patientRemoved",
                                     getDoctorPatientRoom(doctorId, patientId),
                                     [patientId |-> patientId])
                 IN IF doctorId \notin DOMAIN doctors
                    THEN /\ lastOp' = Op("removePatientFromQueue", "DoctorNotFound", rm.ret, 0)
                         /\ emitted' = rm.ev \cup {toPair}
                              \cup {RemoveResponse(FALSE, "DoctorNotFound")}
                    ELSE /\ lastOp' = Op("removePatientFromQueue", "ok", rm.ret, 0)
                         /\ emitted' = rm.ev \cup {toPair}
                              \cup emitQueueUpdate(rm.tbl, doctorId)
                              \cup {RemoveResponse(TRUE, "ok")}
  /\ UNCHANGED <<doctors, nextId, now, socket, reqs>>

\* socket.on("updateDoctorAvailability")
OnUpdateDoctorAvailability(doctorId, isAvailable) ==
  /\ Ready
  /\ IF socket.userType # "doctor" \/ socket.doctorId # doctorId
     THEN /\ lastOp' = Op("updateDoctorAvailability", "Ignored", NoRet, 0)
          /\ emitted' = {}
          /\ UNCHANGED doctors
     ELSE LET out == updateDoctorAvailability(doctors, doctorId, isAvailable) IN
          /\ doctors' = out.docs
          /\ lastOp' = Op("updateDoctorAvailability", out.err, NoRet, 0)
          /\ emitted' = out.ev \cup
               (IF out.err # "ok"
                THEN {ErrorEvent("updateDoctorAvailability", out.err)} ELSE {})
  /\ UNCHANGED <<patients, nextId, now, socket, reqs>>

\* joinDoctorRoom without the loop over the queue: the session joins the
\* doctor's room only.
OnJoinDoctorRoom_doctorRoomOnly(doctorId) ==
  /\ Ready
  /\ IF doctorId = Missing
     THEN /\ lastOp' = Op("joinDoctorRoom", "MissingIds", NoRet, 0)
          /\ emitted' = {ErrorEvent("joinDoctorRoom", "MissingIds")}
          /\ UNCHANGED socket
     ELSE LET bound == [userType |-> "doctor", doctorId |-> doctorId,
                        rooms |-> socket.rooms \cup {getDoctorRoom(doctorId)}]
              joined == Event("doctorRoomJoined", ToSocket, [doctorId |-> doctorId])
          IN /\ socket' = bound
             /\ IF doctorId \notin DOMAIN doctors
                THEN /\ lastOp' = Op("joinDoctorRoom", "DoctorNotFound", NoRet, 0)
                     /\ emitted' = {joined, ErrorEvent("joinDoctorRoom", "DoctorNotFound")}
                ELSE /\ lastOp' = Op("joinDoctorRoom", "ok", NoRet, 0)
                     /\ emitted' = {joined,
                                    Event("queueChanged", ToSocket,
                                          [queue |-> QueueSnapshot(patients, doctorId)])}
  /\ UNCHANGED <<doctors, patients, nextId, now, reqs>>

\* socket.on("joinDoctorRoom"): the session joins the doctor's room and takes
\* the role before the doctor is looked up.
OnJoinDoctorRoom(doctorId) ==
  /\ Ready
  /\ IF doctorId = Missing
     THEN /\ lastOp' = Op("joinDoctorRoom", "MissingIds", NoRet, 0)
          /\ emitted' = {ErrorEvent("joinDoctorRoom", "MissingIds")}
          /\ UNCHANGED socket
     ELSE LET bound == [userType |-> "doctor", doctorId |-> doctorId,
                        rooms |-> socket.rooms \cup {getDoctorRoom(doctorId)}]
              joined == Event("doctorRoomJoined", ToSocket, [doctorId |-> doctorId])
          IN IF doctorId \notin DOMAIN doctors
             THEN /\ socket' = bound
                  /\ lastOp' = Op("joinDoctorRoom", "DoctorNotFound", NoRet, 0)
                  /\ emitted' = {joined, ErrorEvent("joinDoctorRoom", "DoctorNotFound")}
             ELSE /\ socket' = [bound EXCEPT !.rooms = @ \cup
                                  {getDoctorPatientRoom(doctorId, p)
                                     : p \in DoctorPatients(patients, doctorId)}]
                  /\ lastOp' = Op("joinDoctorRoom", "ok", NoRet, 0)
                  /\ emitted' = {joined,
                                 Event("queueChanged", ToSocket,
                                       [queue |-> QueueSnapshot(patients, doctorId)])}
  /\ UNCHANGED <<doctors, patients, nextId, now, reqs>>

\* joinPatientRoom taking the role before the patient is looked up, as
\* joinDoctorRoom does.
OnJoinPatientRoom_roleFirst(patientId) ==
  /\ Ready
  /\ IF patientId = Missing \/ ~validateUUID(patientId)
     THEN /\ lastOp' = Op("joinPatientRoom", "ValidationError", NoRet, 0)
          /\ emitted' = {ErrorEvent("joinPatientRoom", "ValidationError")}
          /\ UNCHANGED socket
     ELSE IF patientId \notin DOMAIN patients
     THEN /\ lastOp' = Op("joinPatientRoom", "PatientNotFound", NoRet, 0)
          /\ emitted' = {ErrorEvent("joinPatientRoom", "PatientNotFound")}
          /\ socket' = [userType |-> "patient", doctorId |-> NoId,
                        rooms |-> socket.rooms \cup {getPatientPrivateRoom(patientId)}]
     ELSE LET doctor_id == patients[patientId].doctor_id IN
          /\ socket' = [userType |-> "patient", doctorId |-> doctor_id,
                        rooms |-> socket.rooms \cup
                                  {getPatientPrivateRoom(patientId),
                                   getDoctorPatientRoom(doctor_id, patientId)}]
          /\ lastOp' = Op("joinPatientRoom", "ok", NoRet, 0)
          /\ emitted' = {Event("queueUpdate", ToSocket,
                               getPatientQueueStatus(patients, patientId))}
  /\ UNCHANGED <<doctors, patients, nextId, now, reqs>>

\* joinPatientRoom answering nothing to a session that is in the patient's
\* private room already.
OnJoinPatientRoom_skipIfMember(patientId) ==
  /\ Ready
  /\ IF patientId = Missing \/ ~validateUUID(patientId)
     THEN /\ lastOp' = Op("joinPatientRoom", "ValidationError", NoRet, 0)
          /\ emitted' = {ErrorEvent("joinPatientRoom", "ValidationError")}
          /\ UNCHANGED socket
     ELSE IF patientId \notin DOMAIN patients
     THEN /\ lastOp' = Op("joinPatientRoom", "PatientNotFound", NoRet, 0)
          /\ emitted' = {ErrorEvent("joinPatientRoom", "PatientNotFound")}
          /\ UNCHANGED socket
     ELSE LET doctor_id == patients[patientId].doctor_id IN
          /\ socket' = [userType |-> "patient", doctorId |-> doctor_id,
                        rooms |-> socket.rooms \cup
                                  {getPatientPrivateRoom(patientId),
                                   getDoctorPatientRoom(doctor_id, patientId)}]
          /\ lastOp' = Op("joinPatientRoom", "ok", NoRet, 0)
          /\ emitted' = IF getPatientPrivateRoom(patientId) \in socket.rooms
                        THEN {}
                        ELSE {Event("queueUpdate", ToSocket,
                                    getPatientQueueStatus(patients, patientId))}
  /\ UNCHANGED <<doctors, patients, nextId, now, reqs>>

\* socket.on("joinPatientRoom")
OnJoinPatientRoom(patientId) ==
  /\ Ready
  /\ IF patientId = Missing \/ ~validateUUID(patientId)
     THEN /\ lastOp' = Op("joinPatientRoom", "ValidationError", NoRet, 0)
          /\ emitted' = {ErrorEvent("joinPatientRoom", "ValidationError")}
          /\ UNCHANGED socket
     ELSE IF patientId \notin DOMAIN patients
     THEN /\ lastOp' = Op("joinPatientRoom", "PatientNotFound", NoRet, 0)
          /\ emitted' = {ErrorEvent("joinPatientRoom", "PatientNotFound")}
          /\ UNCHANGED socket
     ELSE LET doctor_id == patients[patientId].doctor_id IN
          /\ socket' = [userType |-> "patient", doctorId |-> doctor_id,
                        rooms |-> socket.rooms \cup
                                  {getPatientPrivateRoom(patientId),
                                   getDoctorPatientRoom(doctor_id, patientId)}]
          /\ lastOp' = Op("joinPatientRoom", "ok", NoRet, 0)
          /\ emitted' = {Event("queueUpdate", ToSocket,
                               getPatientQueueStatus(patients, patientId))}
  /\ UNCHANGED <<doctors, patients, nextId, now, reqs>>

\* socket.on("disconnect"): the session leaves its rooms and is gone; the next
\* connection is a new session.
OnDisconnect ==
  /\ Ready
  /\ socket # NoSession
  /\ socket' = NoSession
  /\ lastOp' = Op("disconnect", "ok", NoRet, 0)
  /\ emitted' = {}
  /\ UNCHANGED <<doctors, patients, nextId, now, reqs>>

\* ------------------------------------------------------------- the inputs
PatientIdInputs == PatientIds \cup {MalformedId}
DoctorIdInputs == DoctorIds \cup {UnknownDoctor}
StatusInputs == validStatuses \cup {InvalidStatus}
\* body.statusFilter of the clear route: a status, or left out.
ClearFilterInputs == validStatuses \cup {Missing}
\* The doctor whose availability the REST route toggles in the model.
AvailabilityInputs == {"doc1", UnknownDoctor}
\* Payload fields of the socket commands: any string, or missing.
SocketPatientInputs == PatientIds \cup {Missing}
SocketDoctorInputs == DoctorIds \cup {UnknownDoctor, Missing}
StartStatusInputs == {Missing, "startConsultation", "completed"}

\* ------------------------------------------------------ the REST service
Next ==
  \/ \E d \in DoctorIdInputs : PostAddPatient(d)
  \/ \E p \in PatientIdInputs, st \in StatusInputs : PatchPatientStatus(p, st)
  \/ \E p \in PatientIdInputs : DeletePatient(p)
  \/ \E d \in DoctorIdInputs, st \in ClearFilterInputs : DeleteClearQueue(d, st)
  \/ \E d \in AvailabilityInputs, b \in BOOLEAN : PatchAvailability(d, b)
  \/ Deliver

Spec == Init /\ [][Next]_vars

\* --------------------------------------- one socket session and its commands
\* The socket session is studied on a queue of at most MaxSocketPatients rows.
SocketAddPatient(doctorId) == nextId < MaxSocketPatients /\ PostAddPatient(doctorId)

\* The client of the session joins once, as its first command.
FirstJoinDoctorRoom(doctorId) == socket = NoSession /\ OnJoinDoctorRoom(doctorId)
FirstJoinPatientRoom(patientId) == socket = NoSession /\ OnJoinPatientRoom(patientId)

SocketNext ==
  \/ \E d \in DoctorIds : SocketAddPatient(d)
  \/ \E d \in SocketDoctorInputs : FirstJoinDoctorRoom(d)
  \/ \E p \in SocketPatientInputs \cup {MalformedId} : FirstJoinPatientRoom(p)
  \/ OnDisconnect
  \/ \E p \in SocketPatientInputs, d \in SocketDoctorInputs, st \in StartStatusInputs :
       OnStartConsultation(p, d, st)
  \/ \E p \in SocketPatientInputs, d \in SocketDoctorInputs, st \in StatusInputs :
       OnUpdatePatientStatus(p, d, st)
  \/ \E p \in SocketPatientInputs, d \in SocketDoctorInputs : OnCompleteConsultation(p, d)
  \/ \E p \in SocketPatientInputs, d \in SocketDoctorInputs : OnRemovePatientFromQueue(p, d)
  \/ \E d \in SocketDoctorInputs, b \in BOOLEAN : OnUpdateDoctorAvailability(d, b)
  \/ Deliver

SocketSpec == Init /\ [][SocketNext]_vars

\* ------------------------------------ one session and its room memberships
\* leaveRoom that forgets the room in currentRooms without socket.leave: the
\* session stays a member.
OnLeaveRoom_bookkeepingOnly(roomId) ==
  /\ Ready
  /\ lastOp' = Op("leaveRoom", "ok", NoRet, 0)
  /\ emitted' = {}
  /\ UNCHANGED <<doctors, patients, nextId, now, socket, reqs>>

\* socket.on("leaveRoom"): the session leaves the room named; its role and
\* bound doctor stay as they are.
OnLeaveRoom(roomId) ==
  /\ Ready
  /\ socket' = [socket EXCEPT !.rooms = @ \ {roomId}]
  /\ lastOp' = Op("leaveRoom", "ok", NoRet, 0)
  /\ emitted' = {}
  /\ UNCHANGED <<doctors, patients, nextId, now, reqs>>

\* The room names a leaveRoom command may carry.
RoomInputs ==
  {getDoctorRoom(d) : d \in DoctorIds \cup {UnknownDoctor}}
    \cup {getPatientPrivateRoom(p) : p \in PatientIds}
    \cup {getDoctorPatientRoom(d, p) : d \in DoctorIds, p \in PatientIds}

\* A session that joins, re-joins and leaves rooms in any order while
\* patients are added.
RoomNext ==
  \/ \E d \in DoctorIds : SocketAddPatient(d)
  \/ \E d \in SocketDoctorInputs : OnJoinDoctorRoom(d)
  \/ \E p \in SocketPatientInputs \cup {MalformedId} : OnJoinPatientRoom(p)
  \/ \E roomId \in RoomInputs : OnLeaveRoom(roomId)
  \/ OnDisconnect
  \/ Deliver

RoomSpec == Init /\ [][RoomNext]_vars

\* ------------------------------- concurrent calls of addPatientToQueue
\* Node runs one call until its next await; the calls of several requests
\* interleave at the awaits.  The calls in flight that have yet to insert.
Inserting == {r \in Requests : reqs[r].pc \in {"checked", "read"}}

\* await getDoctorById and the three checks.
AddBegin(r, doctorId) ==
  /\ Ready
  /\ reqs[r].pc = "idle"
  /\ nextId + Cardinality(Inserting) < MaxPatients
  /\ LET check == addPatientCheck(doctors, patients, doctorId) IN
     IF check # "ok"
     THEN /\ lastOp' = Op("addPatientToQueue", check, NoRet,
                          IF check = "CapacityExceeded" THEN 500 ELSE 400)
          /\ UNCHANGED reqs
     ELSE /\ reqs' = [reqs EXCEPT ![r] =
                        [Idle EXCEPT !.pc = "checked", !.doctorId = doctorId,
                           !.current_patient_count =
                              getDoctorById(doctors, patients, doctorId).current_patient_count]]
          /\ UNCHANGED lastOp
  /\ UNCHANGED <<doctors, patients, nextId, now, socket, emitted>>

\* await getWaitingPatients
AddReadQueue(r) ==
  /\ Ready
  /\ reqs[r].pc = "checked"
  /\ reqs' = [reqs EXCEPT ![r].pc = "read",
                          ![r].queueLength = waiting_patient_count(patients, reqs[r].doctorId)]
  /\ UNCHANGED <<doctors, patients, nextId, now, socket, lastOp, emitted>>

\* await createPatient
AddCreatePatient(r) ==
  /\ Ready
  /\ reqs[r].pc = "read"
  /\ \E t \in Timestamps,
        estimatedDuration \in EstimatedDurations(reqs[r].doctorId, reqs[r].queueLength) :
       /\ patients' = QueueColumns(createPatient(patients, NewId, reqs[r].doctorId,
                                                estimatedDuration, t))
       /\ now' = t
  /\ nextId' = nextId + 1
  /\ reqs' = [reqs EXCEPT ![r].pc = "created", ![r].id = NewId]
  /\ UNCHANGED <<doctors, socket, lastOp, emitted>>

\* await emitQueueUpdate, await emitPatientAdded, return patient
AddEmit(r) ==
  /\ Ready
  /\ reqs[r].pc = "created"
  /\ emitted' = emitQueueUpdate(patients, reqs[r].doctorId)
                  \cup emitPatientAdded(patients, reqs[r].id, reqs[r].doctorId)
  /\ lastOp' = Op("addPatientToQueue", "ok", reqs[r].queueLength + 1, 201)
  /\ reqs' = [reqs EXCEPT ![r] = Idle]
  /\ UNCHANGED <<doctors, patients, nextId, now, socket>>

ConcNext ==
  \/ \E r \in Requests, d \in DoctorIdInputs : AddBegin(r, d)
  \/ \E r \in Requests : AddReadQueue(r)
  \/ \E r \in Requests : AddCreatePatient(r)
  \/ \E r \in Requests : AddEmit(r)
  \/ Deliver

ConcSpec == Init /\ [][ConcNext]_vars

\* ------------------------------------------- the orchestrator, every column
\* The calls of the QueueManager on the patients table with all its columns,
\* and the clock.
RecordStatusInputs == validStatuses \cup {InvalidStatus}
\* The ids of the rows, and an id no row has (the table never holds more than
\* MaxRecordPatients rows).
RecordPatientInputs == {UuidPool[i] : i \in 1..(MaxRecordPatients + 1)}

Tick ==
  /\ Ready
  /\ now < MaxClock
  /\ now' = now + 1
  /\ UNCHANGED <<doctors, patients, nextId, socket, reqs, lastOp, emitted>>

DoAddPatientToQueue(doctorId) ==
  /\ Ready
  /\ nextId < MaxRecordPatients
  /\ \E out \in addPatientToQueue(doctors, patients, doctorId, NewId, now) :
       /\ patients' = out.tbl
       /\ nextId' = IF out.err = "ok" THEN nextId + 1 ELSE nextId
       /\ emitted' = out.ev
       /\ lastOp' = Op("addPatientToQueue", out.err, out.ret, 0)
  /\ UNCHANGED <<doctors, now, socket, reqs>>

DoUpdatePatientStatus(patientId, status) ==
  /\ Ready
  /\ \E out \in updatePatientStatus(patients, patientId, status) :
       /\ patients' = out.tbl
       /\ emitted' = out.ev
       /\ lastOp' = Op("updatePatientStatus", out.err, out.ret, 0)
  /\ UNCHANGED <<doctors, nextId, now, socket, reqs>>

DoRemovePatientFromQueue(patientId) ==
  /\ Ready
  /\ \E out \in removePatientFromQueue(patients, patientId) :
       /\ patients' = out.tbl
       /\ emitted' = out.ev
       /\ lastOp' = Op("removePatientFromQueue", out.err, out.ret, 0)
  /\ UNCHANGED <<doctors, nextId, now, socket, reqs>>

DoClearDoctorQueue(doctorId, statusFilter) ==
  /\ Ready
  /\ \E out \in clearDoctorQueue(doctors, patients, doctorId, statusFilter) :
       /\ patients' = out.tbl
       /\ emitted' = out.ev
       /\ lastOp' = Op("clearDoctorQueue", out.err, out.ret, 0)
  /\ UNCHANGED <<doctors, nextId, now, socket, reqs>>

DoAutoAdvanceQueue(doctorId) ==
  /\ Ready
  /\ \E out \in autoAdvanceQueue(patients, doctorId) :
       /\ patients' = out.tbl
       /\ emitted' = out.ev
       /\ lastOp' = Op("autoAdvanceQueue", out.err, out.ret, 0)
  /\ UNCHANGED <<doctors, nextId, now, socket, reqs>>

DoUpdateDoctorAvailability(doctorId, isAvailable) ==
  /\ Ready
  /\ LET out == updateDoctorAvailability(doctors, doctorId, isAvailable) IN
       /\ doctors' = out.docs
       /\ emitted' = out.ev
       /\ lastOp' = Op("updateDoctorAvailability", out.err, NoRet, 0)
  /\ UNCHANGED <<patients, nextId, now, socket, reqs>>

DoPerformMaintenanceCleanup ==
  /\ Ready
  /\ LET out == performMaintenanceCleanup(patients) IN
       /\ patients' = out.tbl
       /\ emitted' = out.ev
       /\ lastOp' = Op("performMaintenanceCleanup", out.err, out.ret, 0)
  /\ UNCHANGED <<doctors, nextId, now, socket, reqs>>

RecordNext ==
  \/ Tick
  \/ \E d \in DoctorIds : DoAddPatientToQueue(d)
  \/ \E p \in RecordPatientInputs, st \in RecordStatusInputs : DoUpdatePatientStatus(p, st)
  \/ \E p \in RecordPatientInputs : DoRemovePatientFromQueue(p)
  \/ \E d \in DoctorIds, st \in validStatuses : DoClearDoctorQueue(d, st)
  \/ \E d \in DoctorIds : DoAutoAdvanceQueue(d)
  \/ \E d \in AvailabilityInputs, b \in BOOLEAN : DoUpdateDoctorAvailability(d, b)
  \/ DoPerformMaintenanceCleanup
  \/ Deliver

RecordSpec == Init /\ [][RecordNext]_vars

\* ------------------------------------------------ the transport is failing
\* The calls of the QueueManager while io.to(room).emit throws.  Each of the
\* four calls has done all its writes before its first emit, and there is no
\* transaction around them: the outcome has the table of the call that went
\* through and no event.  emitQueueUpdate, updateQueuePositions and
\* emitPatientAdded catch and log the error; emitPatientRemoved does not, so
\* removePatientFromQueue throws it to its caller.
EmitThrows(out, caught) ==
  IF out.err # "ok" THEN out
  ELSE IF caught THEN Out(out.tbl, "ok", out.ret, {})
  ELSE Out(out.tbl, "EmitError", NoRet, {})

DownAddPatientToQueue(doctorId) ==
  /\ Ready
  /\ nextId < MaxPatients
  /\ \E t \in Timestamps :
     \E call \in addPatientToQueue(doctors, patients, doctorId, NewId, t) :
       LET out == EmitThrows(call, TRUE) IN
       /\ patients' = QueueColumns(out.tbl)
       /\ nextId' = IF out.err = "ok" THEN nextId + 1 ELSE nextId
       /\ now' = IF out.err = "ok" THEN t ELSE now
       /\ emitted' = out.ev
       /\ lastOp' = Op("addPatientToQueue", out.err, out.ret, 0)
  /\ UNCHANGED <<doctors, socket, reqs>>

DownUpdatePatientStatus(patientId, status) ==
  /\ Ready
  /\ \E call \in updatePatientStatus(patients, patientId, status) :
       LET out == EmitThrows(call, TRUE) IN
       /\ patients' = QueueColumns(out.tbl)
       /\ emitted' = out.ev
       /\ lastOp' = Op("updatePatientStatus", out.err, out.ret, 0)
  /\ UNCHANGED <<doctors, nextId, now, socket, reqs>>

\* The removal undone when its broadcast fails.
DownRemovePatientFromQueue_rolledBack(patientId) ==
  /\ Ready
  /\ \E call \in removePatientFromQueue(patients, patientId) :
       LET out == EmitThrows(call, FALSE) IN
       /\ patients' = patients
       /\ emitted' = out.ev
       /\ lastOp' = Op("removePatientFromQueue", out.err, out.ret, 0)
  /\ UNCHANGED <<doctors, nextId, now, socket, reqs>>

DownRemovePatientFromQueue(patientId) ==
  /\ Ready
  /\ \E call \in removePatientFromQueue(patients, patientId) :
       LET out == EmitThrows(call, FALSE) IN
       /\ patients' = QueueColumns(out.tbl)
       /\ emitted' = out.ev
       /\ lastOp' = Op("removePatientFromQueue", out.err, out.ret, 0)
  /\ UNCHANGED <<doctors, nextId, now, socket, reqs>>

DownClearDoctorQueue(doctorId, statusFilter) ==
  /\ Ready
  /\ \E call \in clearDoctorQueue(doctors, patients, doctorId, statusFilter) :
       LET out == EmitThrows(call, TRUE) IN
       /\ patients' = QueueColumns(out.tbl)
       /\ emitted' = out.ev
       /\ lastOp' = Op("clearDoctorQueue", out.err, out.ret, 0)
  /\ UNCHANGED <<doctors, nextId, now, socket, reqs>>

IoDownNext ==
  \/ \E d \in DoctorIdInputs : DownAddPatientToQueue(d)
  \/ \E p \in PatientIds, st \in RecordStatusInputs : DownUpdatePatientStatus(p, st)
  \/ \E p \in PatientIds : DownRemovePatientFromQueue(p)
  \/ \E d \in DoctorIdInputs, st \in validStatuses : DownClearDoctorQueue(d, st)
  \/ Deliver

IoDownSpec == Init /\ [][IoDownNext]_vars

\* ------------------------------------- two removals of one entry in flight
\* removePatientFromQueue between its awaits, for two calls that interleave.
\* A call keeps its locals patientId, doctorId and removed, what it ended
\* with, and the events it has emitted itself.
RemoveIdle == [pc |-> "idle", patientId |-> NoId, doctorId |-> NoId,
               removed |-> FALSE, result |-> "none", ev |-> {}]

\* The patients tables that up to n successful enqueues leave behind.
RECURSIVE EnqueuedTables(_)
EnqueuedTables(n) ==
  IF n = 0 THEN {<<>>}
  ELSE LET prev == EnqueuedTables(n - 1) IN
       prev \cup
       UNION {{createPatient(tbl, UuidPool[n], d, estimatedDuration, 0)
                 : estimatedDuration \in
                     EstimatedDurations(d, waiting_patient_count(tbl, d))}
                : tbl \in {x \in prev : Cardinality(DOMAIN x) = n - 1},
                  d \in DoctorIds}

RemoveInit ==
  /\ doctors = [d \in DoctorIds |-> [is_available |-> TRUE]]
  /\ patients \in {tbl \in EnqueuedTables(MaxRemovePatients) : DOMAIN tbl # {}}
  /\ nextId = Cardinality(DOMAIN patients)
  /\ now = 0
  /\ socket = NoSession
  /\ reqs = [r \in Requests |-> RemoveIdle]
  /\ lastOp = NoOp
  /\ emitted = {}

RemovePatientInputs ==
  {UuidPool[i] : i \in 1..(MaxRemovePatients + 1)} \cup {MalformedId}

\* await this.db.getPatientById(patientId); throw if there is no row
RemGetPatientById(r, patientId) ==
  /\ reqs[r].pc = "idle"
  /\ reqs' = [reqs EXCEPT ![r] =
       IF ~validateUUID(patientId)
       THEN [RemoveIdle EXCEPT !.pc = "done", !.patientId = patientId,
                               !.result = "DbError"]
       ELSE IF patientId \notin DOMAIN patients
       THEN [RemoveIdle EXCEPT !.pc = "done", !.patientId = patientId,
                               !.result = "PatientNotFound"]
       ELSE [RemoveIdle EXCEPT !.pc = "removePatient", !.patientId = patientId,
                               !.doctorId = patients[patientId].doctor_id]]
  /\ UNCHANGED <<doctors, patients, nextId, now, socket, lastOp, emitted>>

\* The call taking every DELETE for one that removed a row.
RemRemovePatient_alwaysRemoved(r) ==
  /\ reqs[r].pc = "removePatient"
  /\ patients' = removePatient(patients, reqs[r].patientId)
  /\ reqs' = [reqs EXCEPT ![r].pc = "emitPatientRemoved", ![r].removed = TRUE]
  /\ UNCHANGED <<doctors, nextId, now, socket, lastOp, emitted>>

\* const removed = await this.db.removePatient(patientId): rowCount > 0;
\* if (!removed) return removed
RemRemovePatient(r) ==
  /\ reqs[r].pc = "removePatient"
  /\ patients' = removePatient(patients, reqs[r].patientId)
  /\ reqs' = IF reqs[r].patientId \in DOMAIN patients
             THEN [reqs EXCEPT ![r].pc = "emitPatientRemoved", ![r].removed = TRUE]
             ELSE [reqs EXCEPT ![r].pc = "done", ![r].removed = FALSE,
                               ![r].result = "ok"]
  /\ UNCHANGED <<doctors, nextId, now, socket, lastOp, emitted>>

\* await this.emitPatientRemoved(patientId, doctorId)
RemEmitPatientRemoved(r) ==
  /\ reqs[r].pc = "emitPatientRemoved"
  /\ LET ev == emitPatientRemoved(patients, reqs[r].patientId, reqs[r].doctorId) IN
       /\ emitted' = emitted \cup ev
       /\ reqs' = [reqs EXCEPT ![r].pc = "emitQueueUpdate", ![r].ev = @ \cup ev]
  /\ UNCHANGED <<doctors, patients, nextId, now, socket, lastOp>>

\* await this.emitQueueUpdate(doctorId)
RemEmitQueueUpdate(r) ==
  /\ reqs[r].pc = "emitQueueUpdate"
  /\ LET ev == emitQueueUpdate(patients, reqs[r].doctorId) IN
       /\ emitted' = emitted \cup ev
       /\ reqs' = [reqs EXCEPT ![r].pc = "updateQueuePositions", ![r].ev = @ \cup ev]
  /\ UNCHANGED <<doctors, patients, nextId, now, socket, lastOp>>

\* await this.updateQueuePositions(doctorId); return removed
RemUpdateQueuePositions(r) ==
  /\ reqs[r].pc = "updateQueuePositions"
  /\ \E ev \in updateQueuePositions(patients, reqs[r].doctorId) :
       /\ emitted' = emitted \cup ev
       /\ reqs' = [reqs EXCEPT ![r].pc = "done", ![r].result = "ok",
                               ![r].ev = @ \cup ev]
  /\ UNCHANGED <<doctors, patients, nextId, now, socket, lastOp>>

RemoveNext ==
  \/ \E r \in Requests, p \in RemovePatientInputs : RemGetPatientById(r, p)
  \/ \E r \in Requests : RemRemovePatient(r)
  \/ \E r \in Requests : RemEmitPatientRemoved(r)
  \/ \E r \in Requests : RemEmitQueueUpdate(r)
  \/ \E r \in Requests : RemUpdateQueuePositions(r)

RemoveSpec == RemoveInit /\ [][RemoveNext]_vars

\* ----------------------------------------- the duration estimate on its own
\* The doctors row handed to the calculation: any id, any INTEGER
\* average_consultation_time (the column has no CHECK), any specialization.
BaseTimes == {0 - 5, 0, 5, 15, 60, MaxBaseTime}
SpecializationInputs == Specializations \cup {"Neurology"}
ExperienceDoctorIds == {"doc1", "doc2", "doc3", "doc4", "doc5", UnknownDoctor}
QueueLengths == {0, 3, 6, MaxQueueLength}
\* getHours(): one hour of each band of getTimeOfDayMultiplier.
Hours == {0, 9, 12, 14, 17, 19}
\* getDay(): 0 is Sunday.
Days == 0..6
VarianceInputs == {0 - 2 * VarianceScale, 0, 2 * VarianceScale}

DurationInputs ==
  [doctor : [id : ExperienceDoctorIds, average_consultation_time : BaseTimes,
             specialization : SpecializationInputs],
   currentQueueLength : QueueLengths, hour : Hours, day : Days,
   variance : VarianceInputs]

DurationInit ==
  /\ doctors = [d \in DoctorIds |-> [is_available |-> TRUE]]
  /\ patients = <<>>
  /\ nextId = 0
  /\ now = 0
  /\ socket = NoSession
  /\ reqs = [r \in Requests |-> Idle]
  /\ emitted = {}
  /\ \E in \in DurationInputs : lastOp = Op("input", in, NoRet, 0)

CalculateDuration ==
  /\ lastOp.op = "input"
  /\ LET in == lastOp.result IN
       lastOp' = Op("calculateEstimatedDuration", in,
                    calculateEstimatedDuration(in.doctor, in.currentQueueLength,
                                               in.hour, in.day, in.variance),
                    0)
  /\ UNCHANGED <<doctors, patients, nextId, now, socket, reqs, emitted>>

DurationNext == CalculateDuration

DurationSpec == DurationInit /\ [][DurationNext]_vars

\* ================================================================ properties
ConsultingOf(tbl, d) == {p \in DoctorPatients(tbl, d) : tbl[p].status = "consulting"}
\* The waiting entries of d no other waiting entry of d joined before.
EarliestWaiting(tbl, d) ==
  {w \in WaitingOf(tbl, d) : \A v \in WaitingOf(tbl, d) : tbl[w].joined_at <= tbl[v].joined_at}
EarlierWaiting(tbl, e) ==
  {q \in WaitingOf(tbl, tbl[e].doctor_id) : tbl[q].joined_at < tbl[e].joined_at}

\* C1: for every doctor, in every reachable state, at most one queue entry of
\* that doctor has status 'consulting'.
C1_AtMostOneConsulting ==
  \A d \in DoctorIds : Cardinality(ConsultingOf(patients, d)) <= 1

\* C2: when the status update of p to 'consulting' is applied while another
\* entry q of the same doctor is 'consulting', then afterwards q is
\* 'completed', p is 'consulting' and exactly one entry of the doctor is
\* 'consulting'.
C2_ConsultingCompletesPrevious ==
  [][\A p \in PatientIds :
       (p \in DOMAIN patients) =>
         LET d == patients[p].doctor_id
             others == ConsultingOf(patients, d) \ {p}
         IN (others # {} /\ PatchPatientStatus(p, "consulting"))
            => /\ \A q \in others : patients'[q].status = "completed"
               /\ patients'[p].status = "consulting"
               /\ Cardinality(ConsultingOf(patients', d)) = 1]_vars

\* C3: when the only 'consulting' entry of a doctor is moved to 'completed'
\* by the REST status update while the doctor has a 'waiting' entry, the
\* waiting entry that joined earliest ends up with status 'next'.
C3_CompletionAdvancesQueue ==
  [][\A p \in PatientIds :
       (p \in DOMAIN patients) =>
         LET d == patients[p].doctor_id IN
         (/\ ConsultingOf(patients, d) = {p}
          /\ WaitingOf(patients, d) # {}
          /\ PatchPatientStatus(p, "completed"))
         => \E w \in EarliestWaiting(patients, d) : patients'[w].status = "next"]_vars

\* C4 as stated: addPatientToQueue on a doctor whose non-completed entries
\* number max_daily_patients or more fails with the capacity error and leaves
\* the patients table as it was.
C4_AtCapacityRefused ==
  [][\A d \in DoctorIds :
       (/\ current_patient_count(patients, d) >= max_daily_patients(d)
        /\ PostAddPatient(d))
       => /\ lastOp'.result = "CapacityExceeded"
          /\ patients' = patients]_vars

\* C4 amended: addPatientToQueue on an available doctor whose non-completed
\* entries number max_daily_patients or more fails with the capacity error,
\* creates no entry and leaves every entry as it was.
C4_AvailableAtCapacityRefused ==
  [][\A d \in DoctorIds :
       (/\ doctors[d].is_available
        /\ current_patient_count(patients, d) >= max_daily_patients(d)
        /\ PostAddPatient(d))
       => /\ lastOp'.result = "CapacityExceeded"
          /\ patients' = patients
          /\ nextId' = nextId]_vars

\* An enqueue has just been refused for capacity on an available doctor that
\* is full.
C4_CapacityRefusalSeen ==
  /\ lastOp.op = "addPatientToQueue"
  /\ lastOp.result = "CapacityExceeded"
  /\ \E d \in DoctorIds :
       /\ doctors[d].is_available
       /\ current_patient_count(patients, d) >= max_daily_patients(d)

\* C5: for every doctor, in every state reachable by enqueue, status
\* transition, remove and clear from the empty queue, the entries of the
\* doctor that are not 'completed' number at most max_daily_patients.
C5_WithinCapacity ==
  \A d \in DoctorIds : current_patient_count(patients, d) <= max_daily_patients(d)

\* C6: when two enqueue calls for the same doctor run concurrently and both
\* found one slot left below max_daily_patients, at most one of them inserts.
C6_OneSlotOneAdmission ==
  ~ \E r1, r2 \in Requests :
      /\ r1 # r2
      /\ reqs[r1].pc = "created" /\ reqs[r2].pc = "created"
      /\ reqs[r1].doctorId = reqs[r2].doctorId
      /\ reqs[r1].current_patient_count = max_daily_patients(reqs[r1].doctorId) - 1
      /\ reqs[r2].current_patient_count = max_daily_patients(reqs[r2].doctorId) - 1

\* C7: in every reachable state, for every doctor with N waiting entries, the
\* position of each waiting entry is 1 plus the number of waiting entries of
\* the doctor that joined strictly earlier, and the positions of the waiting
\* entries are exactly 1..N, each taken once.
C7_PositionsArePermutation ==
  \A d \in DoctorIds :
    LET W == WaitingOf(patients, d) IN
    /\ \A e \in W :
         getPatientQueuePosition(patients, e) = 1 + Cardinality(EarlierWaiting(patients, e))
    /\ {getPatientQueuePosition(patients, e) : e \in W} = 1..Cardinality(W)
    /\ \A e, f \in W :
         e # f => getPatientQueuePosition(patients, e) # getPatientQueuePosition(patients, f)

\* C8: getPatientQueueStatus(p) reports position 0 and estimatedWaitTime 0
\* when p is not 'waiting'; for a waiting p it reports 1 plus the number of
\* earlier-joined waiting entries of the doctor, and estimatedWaitTime
\* (position - 1) times the doctor's average consultation time.
C8_StatusReport ==
  \A p \in DOMAIN patients :
    LET report == getPatientQueueStatus(patients, p) IN
    IF patients[p].status # "waiting"
    THEN report.position = 0 /\ report.estimatedWaitTime = 0
    ELSE /\ report.position = 1 + Cardinality(EarlierWaiting(patients, p))
         /\ report.estimatedWaitTime =
              (report.position - 1) * average_consultation_time(patients[p].doctor_id)

\* C9: a startConsultation, updatePatientStatus, completeConsultation,
\* removePatientFromQueue or updateDoctorAvailability command of a session
\* that is not bound as a doctor, or is bound to another doctor than the owner
\* of the targeted patient (the targeted doctor), changes no patient's status,
\* deletes no patient and changes no doctor's availability.
C9_ForeignSessionChangesNothing ==
  [][/\ \A p \in SocketPatientInputs, d \in SocketDoctorInputs :
          (/\ \/ socket.userType # "doctor"
              \/ p \in DOMAIN patients /\ socket.doctorId # patients[p].doctor_id
           /\ \/ \E st \in StartStatusInputs : OnStartConsultation(p, d, st)
              \/ \E st \in StatusInputs : OnUpdatePatientStatus(p, d, st)
              \/ OnCompleteConsultation(p, d)
              \/ OnRemovePatientFromQueue(p, d))
          => patients' = patients /\ doctors' = doctors
     /\ \A d \in SocketDoctorInputs, b \in BOOLEAN :
          (/\ socket.userType # "doctor" \/ socket.doctorId # d
           /\ OnUpdateDoctorAvailability(d, b))
          => patients' = patients /\ doctors' = doctors]_vars

\* The events ev hold an Unauthorized error sent to the issuing session.
UnauthorizedReply(ev) ==
  \E e \in ev :
    /\ e.to = ToSocket
    /\ e.ev \in {"error", "removePatientFromQueueResponse"}
    /\ e.data.message = "Unauthorized"

\* C10: every role-gated command (startConsultation, updatePatientStatus,
\* completeConsultation, removePatientFromQueue, updateDoctorAvailability)
\* the server refuses because the session is not a doctor bound to the target
\* doctor is answered by an Unauthorized error to the issuing session.
C10_RefusalIsAnswered ==
  (/\ lastOp.op \in {"startConsultation", "updatePatientStatus", "completeConsultation",
                     "removePatientFromQueue", "updateDoctorAvailability"}
   /\ lastOp.result \in {"Unauthorized", "Ignored"})
  => UnauthorizedReply(emitted)

\* C11: addPatientToQueue on an existing doctor whose availability flag is
\* false fails with the doctor-unavailable error and creates no entry,
\* whatever the doctor's current patient count.
C11_UnavailableRefused ==
  [][\A d \in DoctorIds :
       (~doctors[d].is_available /\ PostAddPatient(d))
       => /\ lastOp'.result = "DoctorUnavailable"
          /\ patients' = patients
          /\ nextId' = nextId]_vars

\* An enqueue has just been refused as unavailable on a doctor that is
\* unavailable and full.
C11_UnavailableRefusalSeen ==
  /\ lastOp.op = "addPatientToQueue"
  /\ lastOp.result = "DoctorUnavailable"
  /\ \E d \in DoctorIds :
       /\ ~doctors[d].is_available
       /\ current_patient_count(patients, d) >= max_daily_patients(d)
       /\ \A e \in DoctorIds \ {d} : doctors[e].is_available

\* C12: removePatientFromQueue on a patient id that does not exist fails with
\* the not-found error and changes nothing; on an existing patient it deletes
\* exactly that entry, so that the id no longer exists and a second removal of
\* it fails with not-found.
C12_RemoveExactlyOnce ==
  [][\A p \in PatientIds :
       DeletePatient(p) =>
         IF p \in DOMAIN patients
         THEN /\ lastOp'.result = "ok"
              /\ DOMAIN patients' = DOMAIN patients \ {p}
              /\ \A q \in DOMAIN patients' : patients'[q] = patients[q]
         ELSE /\ lastOp'.result = "PatientNotFound"
              /\ patients' = patients]_vars

\* The removal of an id that was handed out and is gone has just failed with
\* not-found.
C12_RemovedTwiceSeen ==
  /\ lastOp.op = "removePatientFromQueue"
  /\ lastOp.result = "PatientNotFound"
  /\ \E i \in 1..nextId : UuidPool[i] \notin DOMAIN patients
  /\ patients # <<>>

\* C13: after a status transition or a removal, the queueUpdate event computed
\* for each waiting patient p of the doctor is emitted to p's pair channel
\* doctor:<doctorId>:patient:<p> or to p's private channel patient:<p>.
C13_QueueUpdateReachesPatient ==
  lastOp.op \in {"updatePatientStatus", "removePatientFromQueue"} =>
    \A e \in emitted :
      e.ev = "queueUpdate" =>
        e.to \in {getDoctorPatientRoom(patients[e.data.patientId].doctor_id, e.data.patientId),
                  getPatientPrivateRoom(e.data.patientId)}

ToPairAndPrivate(ev, name, d, p) ==
  /\ \E e \in ev : e.ev = name /\ e.to = getDoctorPatientRoom(d, p)
  /\ \E e \in ev : e.ev = name /\ e.to = getPatientPrivateRoom(p)

\* C15: when a doctor session's startConsultation command moves a patient to
\* 'consulting', a consultationStarted event is emitted to the patient's pair
\* channel and private channel; when a completeConsultation or
\* updatePatientStatus command moves a patient to 'completed', a
\* consultationCompleted event is emitted to the patient's pair channel and
\* private channel.
C15_TransitionEventsReachPatient ==
  [][\A p \in PatientIds, d \in SocketDoctorInputs :
       (p \in DOMAIN patients /\ p \in DOMAIN patients') =>
         /\ (/\ patients[p].status # "consulting"
             /\ patients'[p].status = "consulting"
             /\ \E st \in StartStatusInputs : OnStartConsultation(p, d, st))
            => ToPairAndPrivate(emitted', "consultationStarted", patients[p].doctor_id, p)
         /\ (/\ patients[p].status # "completed"
             /\ patients'[p].status = "completed"
             /\ \/ OnCompleteConsultation(p, d)
                \/ \E st \in StatusInputs : OnUpdatePatientStatus(p, d, st))
            => ToPairAndPrivate(emitted', "consultationCompleted", patients[p].doctor_id, p)]_vars

\* C16: after a successful joinDoctorRoom(session, D) the session has role
\* 'doctor' bound to D and is a member of D's doctor channel and of the pair
\* channel of every patient in D's queue at the time of the join.
C16_DoctorJoinMemberships ==
  [][\A d \in SocketDoctorInputs :
       (OnJoinDoctorRoom(d) /\ lastOp'.result = "ok")
       => /\ socket'.userType = "doctor"
          /\ socket'.doctorId = d
          /\ getDoctorRoom(d) \in socket'.rooms
          /\ \A p \in DoctorPatients(patients, d) :
               getDoctorPatientRoom(d, p) \in socket'.rooms]_vars

\* A session has just joined the room of a doctor with two patients queued.
C16_JoinedDoctorWithQueue ==
  /\ lastOp.op = "joinDoctorRoom"
  /\ lastOp.result = "ok"
  /\ socket.userType = "doctor"
  /\ Cardinality(DoctorPatients(patients, socket.doctorId)) >= 2

\* C17: joinPatientRoom with a missing, malformed or unknown patientId emits
\* an error to the session and leaves the session's role and memberships as
\* they were; with an existing patient it binds role 'patient', makes the
\* session a member of the patient's private channel and of the pair channel
\* of the patient and its doctor, and emits to the session a queueUpdate with
\* the patient's current position, wait time and status.
C17_PatientJoin ==
  [][\A p \in SocketPatientInputs \cup {MalformedId} :
       OnJoinPatientRoom(p) =>
         IF p \in DOMAIN patients
         THEN /\ socket'.userType = "patient"
              /\ getPatientPrivateRoom(p) \in socket'.rooms
              /\ getDoctorPatientRoom(patients[p].doctor_id, p) \in socket'.rooms
              /\ \E e \in emitted' :
                   /\ e.ev = "queueUpdate" /\ e.to = ToSocket
                   /\ e.data.patientId = p
                   /\ e.data.status = patients[p].status
                   /\ patients[p].status = "waiting" =>
                        /\ e.data.position = 1 + Cardinality(EarlierWaiting(patients, p))
                        /\ e.data.estimatedWaitTime =
                             (e.data.position - 1)
                               * average_consultation_time(patients[p].doctor_id)
         ELSE /\ socket' = socket
              /\ \E e \in emitted' : e.ev = "error" /\ e.to = ToSocket]_vars

\* A session has just joined as a patient that has another waiting entry of
\* its doctor ahead of it.
C17_JoinedBehindAnother ==
  /\ lastOp.op = "joinPatientRoom"
  /\ lastOp.result = "ok"
  /\ socket.userType = "patient"
  /\ \E e \in emitted : e.ev = "queueUpdate" /\ e.to = ToSocket /\ e.data.position = 2

\* C18: after a session disconnects it is a member of no channel, whatever
\* joinDoctorRoom, joinPatientRoom and leaveRoom commands it issued before;
\* after leaveRoom(roomId) the session is no member of roomId, so that an
\* event emitted to roomId from then on does not reach it.
C18_LeaveAndDisconnect ==
  [][/\ OnDisconnect => socket'.rooms = {}
     /\ \A roomId \in RoomInputs :
          OnLeaveRoom(roomId) =>
            /\ roomId \notin socket'.rooms
            /\ socket'.rooms = socket.rooms \ {roomId}]_vars

\* A doctor session has just left its doctor channel and is still a member of
\* other channels.
C18_LeftDoctorChannel ==
  /\ lastOp.op = "leaveRoom"
  /\ socket.userType = "doctor"
  /\ getDoctorRoom(socket.doctorId) \notin socket.rooms
  /\ socket.rooms # {}

NextOf(tbl, d) == {p \in DoctorPatients(tbl, d) : tbl[p].status = "next"}

\* C19: for every doctor, in every reachable state at most one entry has
\* status 'next', and an auto-advance that finds a waiting entry leaves
\* exactly one entry of the doctor with status 'next'.
C19_OneOnDeck ==
  \A d \in DoctorIds :
    /\ Cardinality(NextOf(patients, d)) <= 1
    /\ WaitingOf(patients, d) # {} =>
         \A adv \in autoAdvanceQueue(patients, d) : Cardinality(NextOf(adv.tbl, d)) = 1

\* C20: clearDoctorQueue(D, filter) deletes exactly the entries of doctor D
\* whose status equals filter ('waiting' when no filter is given), leaves
\* every entry of D with another status and every entry of other doctors
\* unchanged, and returns the number of entries it deleted; on an unknown
\* doctor it fails with not-found and deletes nothing.
C20_ClearExactlyFiltered ==
  [][\A d \in DoctorIdInputs, st \in {"waiting", "next", "consulting", Missing} :
       DeleteClearQueue(d, st) =>
         LET filter == IF st = Missing THEN "waiting" ELSE st
             cleared == {p \in DOMAIN patients :
                           patients[p].doctor_id = d /\ patients[p].status = filter}
         IN IF d \in DoctorIds
            THEN /\ lastOp'.result = "ok"
                 /\ DOMAIN patients' = DOMAIN patients \ cleared
                 /\ \A q \in DOMAIN patients' : patients'[q] = patients[q]
                 /\ lastOp'.ret = Cardinality(cleared)
            ELSE /\ lastOp'.result = "DoctorNotFound"
                 /\ patients' = patients]_vars

\* A clear has just deleted entries, and both doctors still have entries.
C20_ClearedSomeKeptOthers ==
  /\ lastOp.op = "clearDoctorQueue"
  /\ lastOp.result = "ok"
  /\ lastOp.ret >= 1
  /\ \A d \in DoctorIds : DoctorPatients(patients, d) # {}

\* C21: every successful clearDoctorQueue call on an existing doctor, one that
\* matches no entry included, broadcasts exactly one queueChanged event to
\* that doctor's channel.
C21_ClearBroadcastsOnce ==
  [][\A d \in DoctorIds, st \in {"waiting", "next", "consulting", Missing} :
       (DeleteClearQueue(d, st) /\ lastOp'.result = "ok")
       => Cardinality({e \in emitted' :
                         e.ev = "queueChanged" /\ e.to = getDoctorRoom(d)}) = 1]_vars

\* C28: calculateEstimatedDuration returns an integer between 5 and 60
\* inclusive, for every base consultation time, known or unknown
\* specialization, doctor id, queue length, hour, weekday and variance in
\* [-2, +2].
C28_DurationWithinRange ==
  lastOp.op = "calculateEstimatedDuration" => lastOp.ret \in 5..60

\* A Sunday-evening psychiatry estimate whose unclamped value exceeds 60.
C28_ClampedFromAbove ==
  /\ lastOp.op = "calculateEstimatedDuration"
  /\ lastOp.ret = 60
  /\ RoundedDuration(UnclampedProduct(lastOp.result.doctor,
                                      lastOp.result.currentQueueLength,
                                      lastOp.result.hour, lastOp.result.day),
                     lastOp.result.variance) > 60

\* C22: once an entry is created no operation changes its joined_at, its
\* estimated_duration or its doctor_id; they keep their enqueue-time values
\* until the entry is deleted.
C22_EnqueueFieldsFrozen ==
  [][\A p \in DOMAIN patients \cap DOMAIN patients' :
       /\ patients'[p].joined_at = patients[p].joined_at
       /\ patients'[p].estimated_duration = patients[p].estimated_duration
       /\ patients'[p].doctor_id = patients[p].doctor_id]_vars

\* The first entry, completed after a consultation that began later than its
\* enqueue, still in the table after the second entry is gone.
C22_SurvivedOtherOperations ==
  /\ nextId = 2
  /\ DOMAIN patients = {"p1"}
  /\ patients["p1"].status = "completed"
  /\ patients["p1"].consultation_started_at > patients["p1"].joined_at
  /\ patients["p1"].joined_at = 0
  /\ patients["p1"].estimated_duration \in EstimatedDurations(patients["p1"].doctor_id, 0)

\* C23: for every existing entry, whatever its status, a status-update request
\* of the REST status route for any of the five labels is accepted and leaves
\* the entry with exactly that status.
C23_RestAcceptsEveryLabel ==
  [][\A p \in PatientIds, st \in validStatuses :
       (PatchPatientStatus(p, st) /\ p \in DOMAIN patients)
       => /\ lastOp'.result = "ok"
          /\ p \in DOMAIN patients'
          /\ patients'[p].status = st]_vars

\* C24: updatePatientStatus on a patient id that does not exist, or with a
\* status label outside the five valid ones, fails with an error, leaves every
\* entry unchanged and triggers no broadcast.
C24_RejectedUpdateChangesNothing ==
  [][\A p \in RecordPatientInputs, st \in RecordStatusInputs :
       ((p \notin DOMAIN patients \/ st \notin validStatuses) /\ DoUpdatePatientStatus(p, st))
       => /\ lastOp'.result \in {"InvalidStatus", "PatientNotFound"}
          /\ lastOp'.result = "InvalidStatus" <=> st \notin validStatuses
          /\ patients' = patients
          /\ emitted' = {}]_vars

\* An update with an invalid label was refused while an entry is consulting.
C24_RefusedBesideConsulting ==
  /\ lastOp.op = "updatePatientStatus"
  /\ lastOp.result = "InvalidStatus"
  /\ \E p \in DOMAIN patients : patients[p].status = "consulting"

\* C25: an entry that enters 'consulting' has its consultation_started_at set
\* to the current time, an entry that enters 'completed' has its
\* consultation_ended_at set to the current time, and every 'completed' entry
\* has a consultation_ended_at that is not null.
C25_TransitionsAreStamped ==
  [][/\ \A p \in DOMAIN patients \cap DOMAIN patients' :
          /\ (patients'[p].status = "consulting" /\ patients[p].status # "consulting")
             => patients'[p].consultation_started_at = now
          /\ (patients'[p].status = "completed" /\ patients[p].status # "completed")
             => patients'[p].consultation_ended_at = now
     /\ \A p \in DOMAIN patients' :
          patients'[p].status = "completed" => patients'[p].consultation_ended_at # NULL]_vars

\* An entry enqueued at 0 whose consultation began at 1 and ended at 2.
C25_StartedThenEnded ==
  \E p \in DOMAIN patients :
    /\ patients[p].status = "completed"
    /\ patients[p].joined_at = 0
    /\ patients[p].consultation_started_at = 1
    /\ patients[p].consultation_ended_at = 2

\* C26: a successful addPatientToQueue creates exactly one new entry, 'waiting'
\* and of the given doctor, and returns position = (number of that doctor's
\* waiting entries before the call) + 1, which is the position
\* getPatientQueueStatus reports for the new entry right afterwards.
C26_ReturnedPositionIsReported ==
  [][\A d \in DoctorIds :
       (PostAddPatient(d) /\ lastOp'.result = "ok")
       => LET created == DOMAIN patients' \ DOMAIN patients IN
          /\ Cardinality(created) = 1
          /\ \A p \in created :
               /\ patients'[p].status = "waiting"
               /\ patients'[p].doctor_id = d
               /\ lastOp'.ret = waiting_patient_count(patients, d) + 1
               /\ getPatientQueueStatus(patients', p).position = lastOp'.ret]_vars

\* C27: doc1 (average consultation time 15, available) has no patients.  The
\* first enqueue returns position 1 and the estimated wait for a new arrival
\* evaluated after it is 15; the second returns position 2 and the estimated
\* wait evaluated after it is 30.
C27_AmaKofiScenario ==
  [][(PostAddPatient("doc1") /\ lastOp'.result = "ok")
       => /\ DoctorPatients(patients, "doc1") = {}
             => /\ lastOp'.ret = 1
                /\ getEstimatedWaitTimeForNewPatient(patients', "doc1") = 15
          /\ (/\ Cardinality(DoctorPatients(patients, "doc1")) = 1
              /\ WaitingOf(patients, "doc1") = DoctorPatients(patients, "doc1"))
             => /\ lastOp'.ret = 2
                /\ getEstimatedWaitTimeForNewPatient(patients', "doc1") = 30]_vars

\* C29: every successful addPatientToQueue broadcasts to the doctor's channel
\* a queueChanged whose queue snapshot contains the new entry, and a
\* patientAdded for that entry.
C29_AddIsBroadcast ==
  [][\A d \in DoctorIds :
       (PostAddPatient(d) /\ lastOp'.result = "ok")
       => \A p \in DOMAIN patients' \ DOMAIN patients :
            /\ \E e \in emitted' : /\ e.ev = "queueChanged"
                                   /\ e.to = getDoctorRoom(d)
                                   /\ p \in DOMAIN e.data.queue
                                   /\ e.data.queue[p].status = "waiting"
            /\ \E e \in emitted' : /\ e.ev = "patientAdded"
                                   /\ e.to = getDoctorRoom(d)
                                   /\ e.data.patientId = p]_vars

\* The second entry of a doctor was added and both events went out.
C29_SecondAddBroadcast ==
  /\ lastOp.op = "addPatientToQueue"
  /\ lastOp.result = "ok"
  /\ lastOp.ret = 2
  /\ \E e \in emitted : e.ev = "queueChanged" /\ Cardinality(DOMAIN e.data.queue) = 2
  /\ \E e \in emitted : e.ev = "patientAdded"

\* C30: retention cleanup deletes exactly the 'completed' entries whose
\* consultation_ended_at is more than 24 hours old and returns their count;
\* every entry that is waiting, next, consulting or late, and every completed
\* entry that ended within the last 24 hours, stays as it was.
C30_CleanupDeletesOldCompleted ==
  [][DoPerformMaintenanceCleanup
       => LET old == {p \in DOMAIN patients :
                        /\ patients[p].status = "completed"
                        /\ patients[p].consultation_ended_at # NULL
                        /\ now - patients[p].consultation_ended_at > RetentionInterval}
          IN /\ DOMAIN patients' = DOMAIN patients \ old
             /\ \A p \in DOMAIN patients' : patients'[p] = patients[p]
             /\ lastOp'.ret = Cardinality(old)
             /\ lastOp'.result = "ok"]_vars

\* A cleanup that deleted an old completed entry and kept a completed entry
\* that ended within the last 24 hours.
C30_DeletedOldKeptRecent ==
  /\ lastOp.op = "performMaintenanceCleanup"
  /\ lastOp.ret = 1
  /\ \E p \in DOMAIN patients :
       /\ patients[p].status = "completed"
       /\ now - patients[p].consultation_ended_at <= RetentionInterval

\* C32: at the REST boundary each domain failure of the enqueue (doctor not
\* found, doctor unavailable, capacity exceeded) is reported as a domain error
\* of its own and never as an Internal (500) error.
C32_DomainErrorsNotInternal ==
  [][\A d \in DoctorIdInputs :
       (PostAddPatient(d)
          /\ lastOp'.result \in {"DoctorNotFound", "DoctorUnavailable", "CapacityExceeded"})
       => lastOp'.http \in 400..499]_vars

\* C31: when the broadcast fails after an enqueue, a status transition, a
\* removal or a clear has been written, the written change stays: the created
\* entry exists, the new status is kept, the deleted entries stay deleted.
C31_WriteOutlivesFailedBroadcast ==
  [][/\ \A d \in DoctorIds :
          (DownAddPatientToQueue(d) /\ lastOp'.result = "ok")
          => /\ DOMAIN patients' = DOMAIN patients \cup {NewId}
             /\ patients'[NewId].doctor_id = d
             /\ patients'[NewId].status = "waiting"
     /\ \A p \in DOMAIN patients, st \in validStatuses :
          DownUpdatePatientStatus(p, st)
          => /\ DOMAIN patients' = DOMAIN patients
             /\ patients'[p].status = st
     /\ \A p \in DOMAIN patients :
          DownRemovePatientFromQueue(p) => DOMAIN patients' = DOMAIN patients \ {p}
     /\ \A d \in DoctorIds, st \in validStatuses :
          DownClearDoctorQueue(d, st)
          => DOMAIN patients' =
               {q \in DOMAIN patients :
                  ~(patients[q].doctor_id = d /\ patients[q].status = st)}
     /\ emitted' = {}]_vars

\* A removal whose broadcast failed: the caller saw the error, the row is gone.
C31_RemovedThoughBroadcastFailed ==
  /\ lastOp.op = "removePatientFromQueue"
  /\ lastOp.result = "EmitError"
  /\ emitted = {}
  /\ nextId = 2
  /\ Cardinality(DOMAIN patients) = 1

\* C33: re-joining is an idempotent resynchronization.  A joinDoctorRoom (a
\* joinPatientRoom) issued by a session that holds the role and the channel
\* memberships of that join already, the queue being as it was, leaves the
\* role and the memberships as they are; and every join emits to the session
\* the committed state of that moment: the doctor's full queue, respectively
\* the patient's queue status.
C33_RejoinResynchronizes ==
  [][/\ \A d \in DoctorIds :
          OnJoinDoctorRoom(d)
          => /\ Event("queueChanged", ToSocket,
                      [queue |-> [p \in DoctorPatients(patients, d) |-> patients[p]]])
                  \in emitted'
             /\ (/\ socket.userType = "doctor"
                 /\ socket.doctorId = d
                 /\ getDoctorRoom(d) \in socket.rooms
                 /\ \A p \in DoctorPatients(patients, d) :
                      getDoctorPatientRoom(d, p) \in socket.rooms)
                => socket' = socket
     /\ \A p \in DOMAIN patients :
          OnJoinPatientRoom(p)
          => /\ \E e \in emitted' :
                  /\ e.ev = "queueUpdate"
                  /\ e.to = ToSocket
                  /\ e.data.patientId = p
                  /\ e.data.status = patients[p].status
                  /\ e.data.position = Cardinality(EarlierWaiting(patients, p)) + 1
             /\ (/\ socket.userType = "patient"
                 /\ socket.doctorId = patients[p].doctor_id
                 /\ getPatientPrivateRoom(p) \in socket.rooms
                 /\ getDoctorPatientRoom(patients[p].doctor_id, p) \in socket.rooms)
                => socket' = socket]_vars

\* A doctor session with two queued patients that was answered a join while
\* it also holds a patient's private room from an earlier join.
C33_JoinedAgain ==
  /\ lastOp.op = "joinDoctorRoom"
  /\ lastOp.result = "ok"
  /\ socket.userType = "doctor"
  /\ Cardinality(DoctorPatients(patients, socket.doctorId)) = 2
  /\ getDoctorRoom(socket.doctorId) \in socket.rooms
  /\ \A p \in DoctorPatients(patients, socket.doctorId) :
       getDoctorPatientRoom(socket.doctorId, p) \in socket.rooms
  /\ \E p \in DOMAIN patients : getPatientPrivateRoom(p) \in socket.rooms

\* C34: when an enqueue, status transition, removal, clear or auto-advance has
\* finished with nothing else in flight and has changed the committed queue of
\* doctor d, the queueChanged event it sent to d's channel, the last one sent
\* there, carries d's committed queue.
C34_LastQueueChangedIsCommitted ==
  [][\A d \in DoctorIds :
       (/\ lastOp'.op \in {"addPatientToQueue", "updatePatientStatus",
                           "removePatientFromQueue", "clearDoctorQueue",
                           "autoAdvanceQueue"}
        /\ QueueSnapshot(patients', d) # QueueSnapshot(patients, d))
       => \E e \in emitted' :
            /\ e.ev = "queueChanged"
            /\ e.to = getDoctorRoom(d)
            /\ e.data.queue = QueueSnapshot(patients', d)]_vars

\* C35: a connected session that joined doctor d's room and has left no room
\* is a member of the pair channel of every patient now queued for d, patients
\* enqueued after the join included.
C35_DoctorSessionInEveryPairChannel ==
  \A d \in DoctorIds :
    (socket.userType = "doctor" /\ getDoctorRoom(d) \in socket.rooms)
    => \A p \in DoctorPatients(patients, d) :
         getDoctorPatientRoom(d, p) \in socket.rooms

\* C36: for every waiting entry, the position updateQueuePositions broadcasts
\* in queueUpdate equals the position getPatientQueueStatus returns for the
\* same entry in the same committed state, also when two waiting entries of
\* the doctor have the same joined_at.
C36_BroadcastPositionIsReportedPosition ==
  \A e \in emitted :
    (e.ev = "queueUpdate" /\ e.to.kind = "doctor")
    => e.data.position = getPatientQueueStatus(patients, e.data.patientId).position

\* C37: for every entry, joined_at <= consultation_started_at whenever
\* consultation_started_at is set, and consultation_started_at <=
\* consultation_ended_at whenever both are set, after any sequence of status
\* transitions.
C37_TimestampsOrdered ==
  \A p \in DOMAIN patients :
    /\ patients[p].consultation_started_at # NULL
       => patients[p].joined_at <= patients[p].consultation_started_at
    /\ (patients[p].consultation_started_at # NULL
        /\ patients[p].consultation_ended_at # NULL)
       => patients[p].consultation_started_at <= patients[p].consultation_ended_at

====
